---- MODULE Spec2Model ----
(***************************************************************************)
(* Model of codegen/generate.py: the grammar-rule extractor                *)
(* (GrammarParser), the node-schema projection (SemanticNodeGenerator),    *)
(* the construction-routine projection (TreeBuilderGenerator), the driver  *)
(* (main) and the behaviour of a generated visit method on a parse-tree    *)
(* context.  Texts are sequences of one-character strings.                 *)
(***************************************************************************)
EXTENDS Integers, Sequences, FiniteSets, TLC

(***************************************************************************)
(* Characters and character classes of the regular expressions             *)
(***************************************************************************)
LowerSeq == <<"a", "b", "c", "d", "e", "f", "g", "h", "i", "j", "k", "l", "m",
              "n", "o", "p", "q", "r", "s", "t", "u", "v", "w", "x", "y", "z">>
UpperSeq == <<"A", "B", "C", "D", "E", "F", "G", "H", "I", "J", "K", "L", "M",
              "N", "O", "P", "Q", "R", "S", "T", "U", "V", "W", "X", "Y", "Z">>
DigitSeq == <<"0", "1", "2", "3", "4", "5", "6", "7", "8", "9">>

Range(f) == {f[i] : i \in DOMAIN f}

LowerChars == Range(LowerSeq)
UpperChars == Range(UpperSeq)
DigitChars == Range(DigitSeq)
\* \s
SpaceChars == {" ", "\t", "\n", "\r", "\f"}
\* [a-z_] and [a-z0-9_]
LowerIdStart == LowerChars \cup {"_"}
LowerIdRest == LowerChars \cup DigitChars \cup {"_"}
\* [A-Z_] and [A-Z0-9_]
UpperIdStart == UpperChars \cup {"_"}
UpperIdRest == UpperChars \cup DigitChars \cup {"_"}
\* [?*+]
CardChars == {"?", "*", "+"}

\* str.upper() / str.lower() on one character
upper(c) == IF c \in LowerChars
            THEN UpperSeq[CHOOSE i \in DOMAIN LowerSeq : LowerSeq[i] = c]
            ELSE c
lower(c) == IF c \in UpperChars
            THEN LowerSeq[CHOOSE i \in DOMAIN UpperSeq : UpperSeq[i] = c]
            ELSE c

\* code-point order of the characters a rule name is made of ([a-z0-9_])
CodeOrder == DigitSeq \o <<"_">> \o LowerSeq
Ord(c) == CHOOSE i \in DOMAIN CodeOrder : CodeOrder[i] = c

Min(S) == CHOOSE x \in S : \A y \in S : x <= y

\* s[i..j-1], 1-based, empty when j <= i
Slice(s, i, j) == IF j <= i THEN <<>> ELSE SubSeq(s, i, j - 1)

\* first index >= i whose character is not in S (Len(s)+1 when none): the end
\* of a greedy run of a character class
RECURSIVE SkipIn(_, _, _)
SkipIn(s, i, S) ==
    IF i <= Len(s) /\ s[i] \in S THEN SkipIn(s, i + 1, S) ELSE i

\* str.strip()
lstrip(s) == Slice(s, SkipIn(s, 1, SpaceChars), Len(s) + 1)
RECURSIVE rstrip(_)
rstrip(s) ==
    IF s # <<>> /\ s[Len(s)] \in SpaceChars
    THEN rstrip(SubSeq(s, 1, Len(s) - 1)) ELSE s
strip(s) == rstrip(lstrip(s))

\* ''.join(parts)
RECURSIVE join(_)
join(parts) == IF parts = <<>> THEN <<>> ELSE Head(parts) \o join(Tail(parts))

\* str.split(sep) for a one-character separator
RECURSIVE SplitFrom(_, _, _, _)
SplitFrom(s, i, sep, cur) ==
    IF i > Len(s) THEN <<cur>>
    ELSE IF s[i] = sep THEN <<cur>> \o SplitFrom(s, i + 1, sep, <<>>)
    ELSE SplitFrom(s, i + 1, sep, Append(cur, s[i]))
split(s, sep) == SplitFrom(s, 1, sep, <<>>)

\* str.capitalize()
capitalize(w) ==
    IF w = <<>> THEN <<>>
    ELSE <<upper(w[1])>> \o [i \in 1..(Len(w) - 1) |-> lower(w[i + 1])]

\* the order sorted() puts two rule names in
RECURSIVE StrLess(_, _)
StrLess(a, b) ==
    IF b = <<>> THEN FALSE
    ELSE IF a = <<>> THEN TRUE
    ELSE IF a[1] = b[1] THEN StrLess(Tail(a), Tail(b))
    ELSE Ord(a[1]) < Ord(b[1])

\* sorted(names)
RECURSIVE sorted(_)
sorted(S) ==
    IF S = {} THEN <<>>
    ELSE LET m == CHOOSE x \in S : \A y \in S \ {x} : StrLess(x, y)
         IN <<m>> \o sorted(S \ {m})

(***************************************************************************)
(* GrammarParser                                                           *)
(***************************************************************************)
NoMatch == [found |-> FALSE]

\* rule_pattern = ^([a-z_][a-z0-9_]*)\s*:\s*(.+?)\s*;  (MULTILINE | DOTALL)
\* tried at index i.  The name is the greedy identifier, the body the
\* shortest non-empty text followed by \s*; after the longest run of white
\* space that leaves such a body.
RECURSIVE BodyFrom(_, _, _)
BodyFrom(s, p, k) ==
    LET st == p + k
        semis == {j \in (st + 1)..Len(s) : s[j] = ";"}
    IN  IF st <= Len(s) /\ semis # {}
        THEN LET s1 == Min(semis)
                 ws == Min({e \in (st + 1)..s1 :
                              \A j \in e..(s1 - 1) : s[j] \in SpaceChars})
             IN [found |-> TRUE, body |-> Slice(s, st, ws), end |-> s1 + 1]
        ELSE IF k = 0 THEN NoMatch
        ELSE BodyFrom(s, p, k - 1)

MatchRuleAt(s, i) ==
    IF ~(i = 1 \/ s[i - 1] = "\n") THEN NoMatch
    ELSE IF ~(i <= Len(s) /\ s[i] \in LowerIdStart) THEN NoMatch
    ELSE LET nameEnd == SkipIn(s, i + 1, LowerIdRest)
             colon == SkipIn(s, nameEnd, SpaceChars)
         IN IF ~(colon <= Len(s) /\ s[colon] = ":") THEN NoMatch
            ELSE LET p == colon + 1
                     w == SkipIn(s, p, SpaceChars) - p
                     b == BodyFrom(s, p, w)
                 IN IF ~b.found THEN NoMatch
                    ELSE [found |-> TRUE, name |-> Slice(s, i, nameEnd),
                          body |-> b.body, end |-> b.end]

\* the next match rule_pattern.finditer(content) yields from index pos on
NextRuleMatch(s, pos) ==
    LET at == {i \in pos..Len(s) : MatchRuleAt(s, i).found}
    IN IF at = {} THEN NoMatch ELSE MatchRuleAt(s, Min(at))

skip_rules == {
    <<"s", "q", "l", "_", "s", "c", "r", "i", "p", "t">>,
    <<"u", "n", "i", "t", "_", "s", "t", "a", "t", "e", "m", "e", "n", "t">>,
    <<"s", "q", "l", "_", "p", "l", "u", "s", "_", "c", "o", "m", "m", "a", "n", "d">>,
    <<"s", "q", "l", "_", "p", "l", "u", "s", "_", "c", "o", "m", "m", "a", "n", "d",
      "_", "n", "o", "_", "s", "e", "m", "i", "c", "o", "l", "o", "n">> }

\* _should_skip_rule that knows the first entry only
_should_skip_rule_first(rule_name) ==
    rule_name = <<"s", "q", "l", "_", "s", "c", "r", "i", "p", "t">>

_should_skip_rule(rule_name) == rule_name \in skip_rules

\* the character loop of _split_alternatives from index i on
RECURSIVE SplitLoop(_, _, _, _, _)
SplitLoop(rule_body, i, depth, current, parts) ==
    IF i > Len(rule_body)
    THEN IF current # <<>> THEN Append(parts, strip(current)) ELSE parts
    ELSE LET char == rule_body[i]
         IN IF char = "(" \/ char = "["
            THEN SplitLoop(rule_body, i + 1, depth + 1, Append(current, char), parts)
            ELSE IF char = ")" \/ char = "]"
            THEN SplitLoop(rule_body, i + 1, depth - 1, Append(current, char), parts)
            ELSE IF char = "|" /\ depth = 0
            THEN SplitLoop(rule_body, i + 1, depth, <<>>, Append(parts, strip(current)))
            ELSE SplitLoop(rule_body, i + 1, depth, Append(current, char), parts)

\* _split_alternatives with the depth test left out of the "|" branch
RECURSIVE SplitLoopAnyDepth(_, _, _, _)
SplitLoopAnyDepth(rule_body, i, current, parts) ==
    IF i > Len(rule_body)
    THEN IF current # <<>> THEN Append(parts, strip(current)) ELSE parts
    ELSE IF rule_body[i] = "|"
    THEN SplitLoopAnyDepth(rule_body, i + 1, <<>>, Append(parts, strip(current)))
    ELSE SplitLoopAnyDepth(rule_body, i + 1, Append(current, rule_body[i]), parts)
_split_alternatives_any_depth(rule_body) ==
    LET parts == SplitLoopAnyDepth(rule_body, 1, <<>>, <<>>)
    IN IF parts # <<>> THEN parts ELSE <<rule_body>>

_split_alternatives(rule_body) ==
    LET parts == SplitLoop(rule_body, 1, 0, <<>>, <<>>)
    IN IF parts # <<>> THEN parts ELSE <<rule_body>>

\* #\s*[a-z_][a-z0-9_]* tried at index i
LabelAt(s, i) ==
    IF ~(i <= Len(s) /\ s[i] = "#") THEN NoMatch
    ELSE LET id == SkipIn(s, i + 1, SpaceChars)
         IN IF ~(id <= Len(s) /\ s[id] \in LowerIdStart) THEN NoMatch
            ELSE LET e == SkipIn(s, id + 1, LowerIdRest)
                 IN [found |-> TRUE, label |-> Slice(s, id, e), end |-> e]

\* re.search(r'#\s*([a-z_][a-z0-9_]*)', alt_text)
LabelSearch(s) ==
    LET at == {i \in 1..Len(s) : LabelAt(s, i).found}
    IN IF at = {} THEN NoMatch ELSE LabelAt(s, Min(at))

\* re.sub that removes the "#" of each match and leaves the identifier
RECURSIVE LabelSubHashFrom(_, _)
LabelSubHashFrom(s, i) ==
    IF i > Len(s) THEN <<>>
    ELSE IF LabelAt(s, i).found THEN LabelSubHashFrom(s, i + 1)
    ELSE <<s[i]>> \o LabelSubHashFrom(s, i + 1)
LabelSub_hash_only(s) == LabelSubHashFrom(s, 1)

\* re.sub(r'#\s*[a-z_][a-z0-9_]*', '', alt_text): every match, left to right
RECURSIVE LabelSubFrom(_, _)
LabelSubFrom(s, i) ==
    IF i > Len(s) THEN <<>>
    ELSE LET m == LabelAt(s, i)
         IN IF m.found THEN LabelSubFrom(s, m.end)
            ELSE <<s[i]>> \o LabelSubFrom(s, i + 1)
LabelSub(s) == LabelSubFrom(s, 1)

\* element_pattern tried at index i:
\* ([a-z_][a-z0-9_]*|[A-Z_][A-Z0-9_]*|'[^']+'|"[^"]+")([?*+])?
ElementAt(s, i) ==
    LET c == s[i]
        nameEnd ==
            IF c \in LowerIdStart THEN SkipIn(s, i + 1, LowerIdRest)
            ELSE IF c \in UpperIdStart THEN SkipIn(s, i + 1, UpperIdRest)
            ELSE IF c = "'" \/ c = "\""
            THEN LET close == SkipIn(s, i + 1, {x \in Range(s) : x # c})
                 IN IF close <= Len(s) /\ close >= i + 2 THEN close + 1 ELSE 0
            ELSE 0
    IN IF nameEnd = 0 THEN NoMatch
       ELSE LET card == nameEnd <= Len(s) /\ s[nameEnd] \in CardChars
            IN [found |-> TRUE, name |-> Slice(s, i, nameEnd),
                cardinality |-> IF card THEN <<s[nameEnd]>> ELSE <<>>,
                end |-> IF card THEN nameEnd + 1 ELSE nameEnd]

\* RuleElement with every element taken for a rule reference
RuleElement_all_refs(name, cardinality) ==
    [name |-> name, is_token |-> FALSE,
     cardinality |-> cardinality, is_rule_ref |-> TRUE]

\* RuleElement(name, is_token, cardinality, is_rule_ref)
RuleElement(name, cardinality) ==
    [name |-> name, is_token |-> name[1] \in UpperChars,
     cardinality |-> cardinality, is_rule_ref |-> ~(name[1] \in UpperChars)]

RECURSIVE ElementsFrom(_, _)
ElementsFrom(s, i) ==
    IF i > Len(s) THEN <<>>
    ELSE LET m == ElementAt(s, i)
         IN IF ~m.found THEN ElementsFrom(s, i + 1)
            ELSE IF m.name[1] = "'" \/ m.name[1] = "\"" THEN ElementsFrom(s, m.end)
            ELSE <<RuleElement(m.name, m.cardinality)>> \o ElementsFrom(s, m.end)

_parse_alternative(alt_text) == ElementsFrom(alt_text, 1)

\* one pass of the loop over alt_parts in _parse_rule
ParseAlt(alt_text) ==
    LET label_match == LabelSearch(alt_text)
    IN IF label_match.found
       THEN [has_label |-> TRUE, label |-> label_match.label,
             elements |-> _parse_alternative(LabelSub(alt_text))]
       ELSE [has_label |-> FALSE, label |-> <<>>,
             elements |-> _parse_alternative(alt_text)]

_parse_rule(rule_name, rule_body) ==
    LET parts == _split_alternatives(rule_body)
    IN [name |-> rule_name,
        alternatives |-> [k \in 1..Len(parts) |-> ParseAlt(parts[k])]]

(***************************************************************************)
(* Data model helpers                                                      *)
(***************************************************************************)
\* RuleElement.is_optional / RuleElement.is_list
is_optional(elem) == elem.cardinality \in {<<"?">>, <<"*">>}
\* is_list that knows "+" only
is_list_plus_only(elem) == elem.cardinality = <<"+">>

is_list(elem) == elem.cardinality \in {<<"*">>, <<"+">>}

\* GrammarRule.java_class_name: snake_case to PascalCase
java_class_name(rule) ==
    LET words == split(rule.name, "_")
    IN join([k \in 1..Len(words) |-> capitalize(words[k])])

has_multiple_alternatives(rule) == Len(rule.alternatives) > 1

\* any(alt.label for alt in rule.alternatives)
AnyLabel(rule) ==
    \E k \in 1..Len(rule.alternatives) : rule.alternatives[k].has_label

\* rule.alternatives[0] if rule.alternatives else Alternative(None, [])
FirstAlternative(rule) ==
    IF rule.alternatives # <<>> THEN rule.alternatives[1]
    ELSE [has_label |-> FALSE, label |-> <<>>, elements |-> <<>>]

(***************************************************************************)
(* SemanticNodeGenerator                                                   *)
(***************************************************************************)
_rule_to_class_name(rule_name) ==
    LET words == split(rule_name, "_")
    IN join([k \in 1..Len(words) |-> capitalize(words[k])])

_to_camel_case(snake_str) ==
    LET components == split(snake_str, "_")
    IN components[1] \o
       join([k \in 1..(Len(components) - 1) |-> capitalize(components[k + 1])])

\* _get_field_type without its is_list branch
_get_field_type_bare(elem) == _rule_to_class_name(elem.name)

\* "List<Base>" for a list element, "Base" otherwise
_get_field_type(elem) ==
    LET base_type == _rule_to_class_name(elem.name)
    IN IF is_list(elem)
       THEN <<"L", "i", "s", "t", "<">> \o base_type \o <<">">>
       ELSE IF is_optional(elem) THEN base_type
       ELSE base_type

\* the loop of _generate_fields: one [type, name] per line
\* "private final <type> <name>;"
RECURSIVE FieldsLoop(_, _, _)
FieldsLoop(elements, i, seen_names) ==
    IF i > Len(elements) THEN <<>>
    ELSE LET elem == elements[i]
             field_name == _to_camel_case(elem.name)
         IN IF ~elem.is_rule_ref THEN FieldsLoop(elements, i + 1, seen_names)
            ELSE IF field_name \in seen_names
            THEN FieldsLoop(elements, i + 1, seen_names)
            ELSE <<[type |-> _get_field_type(elem), name |-> field_name]>>
                 \o FieldsLoop(elements, i + 1, seen_names \cup {field_name})

\* _generate_fields without the seen_names test
_generate_fields_no_seen(alt) ==
    LET refs == SelectSeq(alt.elements, LAMBDA e : e.is_rule_ref)
    IN [k \in 1..Len(refs) |->
          [type |-> _get_field_type(refs[k]), name |-> _to_camel_case(refs[k].name)]]

_generate_fields(alt) == FieldsLoop(alt.elements, 1, {})

\* the loop of _generate_constructor: one [type, name] per parameter, each
\* with its assignment this.<name> = <name>
RECURSIVE ParamsLoop(_, _, _)
ParamsLoop(elements, i, seen_names) ==
    IF i > Len(elements) THEN <<>>
    ELSE LET elem == elements[i]
             field_name == _to_camel_case(elem.name)
         IN IF ~elem.is_rule_ref THEN ParamsLoop(elements, i + 1, seen_names)
            ELSE IF field_name \in seen_names
            THEN ParamsLoop(elements, i + 1, seen_names)
            ELSE <<[type |-> _get_field_type(elem), name |-> field_name]>>
                 \o ParamsLoop(elements, i + 1, seen_names \cup {field_name})

\* _generate_constructor without the seen_names test
_generate_constructor_no_seen(class_name, alt) ==
    LET refs == SelectSeq(alt.elements, LAMBDA e : e.is_rule_ref)
    IN [name |-> class_name,
        params |-> [k \in 1..Len(refs) |->
                      [type |-> _get_field_type(refs[k]),
                       name |-> _to_camel_case(refs[k].name)]]]

_generate_constructor(class_name, alt) ==
    [name |-> class_name, params |-> ParamsLoop(alt.elements, 1, {})]

\* the loop of _generate_getters: one [type, getter, returns] per getter;
\* field_name[0] raises IndexError on an empty field name
RECURSIVE GettersLoop(_, _, _)
GettersLoop(elements, i, seen_names) ==
    IF i > Len(elements) THEN <<>>
    ELSE LET elem == elements[i]
             field_name == _to_camel_case(elem.name)
         IN IF ~elem.is_rule_ref THEN GettersLoop(elements, i + 1, seen_names)
            ELSE IF field_name \in seen_names
            THEN GettersLoop(elements, i + 1, seen_names)
            ELSE <<[type |-> _get_field_type(elem),
                    getter |-> <<"g", "e", "t", upper(field_name[1])>>
                               \o Tail(field_name),
                    returns |-> field_name]>>
                 \o GettersLoop(elements, i + 1, seen_names \cup {field_name})

_generate_getters(alt) == GettersLoop(alt.elements, 1, {})

\* _generate_getters reaches field_name[0] with an empty field_name
GettersRaise(alt) ==
    \E i \in 1..Len(alt.elements) :
        /\ alt.elements[i].is_rule_ref
        /\ _to_camel_case(alt.elements[i].name) = <<>>

\* the class text _generate_class returns on its unlabeled path
NodeClass(rule) ==
    LET class_name == java_class_name(rule)
        alt == FirstAlternative(rule)
    IN [class_name |-> class_name,
        rule_name |-> rule.name,
        fields |-> _generate_fields(alt),
        constructor |-> _generate_constructor(class_name, alt),
        getters |-> _generate_getters(alt)]

(***************************************************************************)
(* TreeBuilderGenerator                                                    *)
(***************************************************************************)
\* the loop of _generate_visit_body: one step per kept element, with the
\* branch taken, the type and the name (arg) of the local variable declared,
\* which is the constructor argument
RECURSIVE VisitLoop(_, _, _, _)
VisitLoop(rule, elements, i, seen_names) ==
    IF i > Len(elements) THEN <<>>
    ELSE LET elem == elements[i]
             field_name == _to_camel_case(elem.name)
             class_name == _rule_to_class_name(elem.name)
         IN IF ~elem.is_rule_ref THEN VisitLoop(rule, elements, i + 1, seen_names)
            ELSE IF field_name \in seen_names
            THEN VisitLoop(rule, elements, i + 1, seen_names)
            ELSE <<IF is_list(elem)
                   THEN [branch |-> "list", class_name |-> class_name,
                         ctx_method |-> elem.name,
                         declared |-> <<"L", "i", "s", "t", "<">> \o class_name
                                      \o <<">">>,
                         arg |-> field_name \o <<"L", "i", "s", "t">>,
                         message |-> <<>>]
                   ELSE IF is_optional(elem)
                   THEN [branch |-> "optional", class_name |-> class_name,
                         ctx_method |-> elem.name, declared |-> class_name,
                         arg |-> field_name,
                         message |-> <<>>]
                   ELSE [branch |-> "required", class_name |-> class_name,
                         ctx_method |-> elem.name, declared |-> class_name,
                         arg |-> field_name,
                         message |-> rule.name
                                     \o <<" ", "m", "i", "s", "s", "i", "n", "g", " ">>
                                     \o elem.name]>>
                 \o VisitLoop(rule, elements, i + 1, seen_names \cup {field_name})

_generate_visit_body(rule, alt) ==
    LET steps == VisitLoop(rule, alt.elements, 1, {})
    IN [steps |-> steps,
        returns |-> java_class_name(rule),
        constructor_args |-> [k \in 1..Len(steps) |-> steps[k].arg]]

_generate_visit_method(rule) ==
    LET alt == FirstAlternative(rule)
    IN [method_name |-> <<"v", "i", "s", "i", "t">> \o java_class_name(rule),
        ctx_type |-> java_class_name(rule)
                     \o <<"C", "o", "n", "t", "e", "x", "t">>,
        body |-> _generate_visit_body(rule, alt)]

\* _generate_builder_class: one visit method per rule
_generate_builder_class(rules) ==
    [rule_name \in DOMAIN rules |-> _generate_visit_method(rules[rule_name])]

(***************************************************************************)
(* A generated visit method run on a parse-tree context.  ctx maps the     *)
(* name of a child accessor to [present, items]: what ctx.<name>() returns *)
(* (null when not present).                                                *)
(***************************************************************************)
NullValue == [tag |-> "null", class_name |-> <<>>, items |-> <<>>]

\* (Class) visit(child)
VisitChild(class_name, child) ==
    [tag |-> "node", class_name |-> class_name, items |-> child]

\* the value the step's local variable holds after the step's lines
StepValue(step, ctx) ==
    LET child == ctx[step.ctx_method]
    IN IF step.branch = "list"
       THEN [tag |-> "list", class_name |-> step.class_name,
             items |-> IF child.present
                       THEN [k \in 1..Len(child.items) |->
                               VisitChild(step.class_name, <<child.items[k]>>)]
                       ELSE <<>>]
       ELSE IF step.branch = "optional"
       THEN IF child.present THEN VisitChild(step.class_name, child.items)
            ELSE NullValue
       ELSE VisitChild(step.class_name, child.items)

\* the required branch without its null test
StepThrows_never(step, ctx) == FALSE

\* the step throws: the required branch with ctx.<name>() == null
StepThrows(step, ctx) ==
    step.branch = "required" /\ ~ctx[step.ctx_method].present

RECURSIVE RunSteps(_, _, _, _)
RunSteps(body, ctx, i, values) ==
    IF i > Len(body.steps)
    THEN [outcome |-> "returned", class_name |-> body.returns, args |-> values,
          exception |-> "", message |-> <<>>]
    ELSE IF StepThrows(body.steps[i], ctx)
    THEN [outcome |-> "thrown", class_name |-> <<>>, args |-> <<>>,
          exception |-> "TransformationException",
          message |-> body.steps[i].message]
    ELSE RunSteps(body, ctx, i + 1, Append(values, StepValue(body.steps[i], ctx)))

RunVisit(method, ctx) == RunSteps(method.body, ctx, 1, <<>>)

(***************************************************************************)
(* One pass of the loop of GrammarParser.parse over a match                *)
(***************************************************************************)
\* a pass that drops a rule whose body closes a group it never opened
ParseStep_reject_unbalanced(rs, rule_name, rule_body) ==
    IF _should_skip_rule(rule_name) THEN rs
    ELSE IF \E i \in 1..Len(rule_body) :
              Cardinality({j \in 1..i : rule_body[j] \in {")", "]"}})
              > Cardinality({j \in 1..i : rule_body[j] \in {"(", "["}})
    THEN rs
    ELSE (rule_name :> _parse_rule(rule_name, rule_body)) @@ rs

ParseStep(rs, rule_name, rule_body) ==
    IF _should_skip_rule(rule_name) THEN rs
    ELSE (rule_name :> _parse_rule(rule_name, rule_body)) @@ rs

(***************************************************************************)
(* _generate_class: "interface" when it hands the rule to                  *)
(* _generate_interface_with_implementations, "IndexError" when             *)
(* _generate_getters raises, else the class                                *)
(***************************************************************************)
NoClass == [class_name |-> <<>>, rule_name |-> <<>>, fields |-> <<>>,
            constructor |-> [name |-> <<>>, params |-> <<>>], getters |-> <<>>]

_generate_class(rule) ==
    IF AnyLabel(rule) THEN [result |-> "interface", class |-> NoClass]
    ELSE IF GettersRaise(FirstAlternative(rule))
    THEN [result |-> "IndexError", class |-> NoClass]
    ELSE [result |-> "class", class |-> NodeClass(rule)]

(***************************************************************************)
(* Grammar texts                                                           *)
(***************************************************************************)
\* longest body of the exhaustively enumerated one-rule grammars
MaxBodyLen == 3
\* most productions of a grammar put together from ComboLines
MaxRules == 2
\* frames the interpreter allows before it raises RecursionError
MaxStack == 4

WideChars == {"a", "B", "(", ")", "[", "]", "|", "#", "?", "+", "*", " ", "_"}

WideBodies == UNION {[1..n -> WideChars] : n \in 0..MaxBodyLen}

\* w:<body>;
WideGrammars == {<<"w", ":">> \o b \o <<";">> : b \in WideBodies}

ScenarioLines == {
    \* foo : BAR baz qux? ;
    <<"f", "o", "o", " ", ":", " ", "B", "A", "R", " ", "b", "a", "z", " ",
      "q", "u", "x", "?", " ", ";">>,
    \* list_rule : item+ ;
    <<"l", "i", "s", "t", "_", "r", "u", "l", "e", " ", ":", " ",
      "i", "t", "e", "m", "+", " ", ";">>,
    \* choice : a #alt_a | b #alt_b ;
    <<"c", "h", "o", "i", "c", "e", " ", ":", " ", "a", " ", "#", "a", "l", "t",
      "_", "a", " ", "|", " ", "b", " ", "#", "a", "l", "t", "_", "b", " ", ";">>,
    \* r : a (x|y) b ;
    <<"r", " ", ":", " ", "a", " ", "(", "x", "|", "y", ")", " ", "b", " ", ";">>,
    \* g : a [x|y] b ;
    <<"g", " ", ":", " ", "a", " ", "[", "x", "|", "y", "]", " ", "b", " ", ";">>,
    \* bad : a ) | b ;
    <<"b", "a", "d", " ", ":", " ", "a", " ", ")", " ", "|", " ", "b", " ", ";">>,
    \* sql_script : unit_statement* ;
    <<"s", "q", "l", "_", "s", "c", "r", "i", "p", "t", " ", ":", " ", "u", "n",
      "i", "t", "_", "s", "t", "a", "t", "e", "m", "e", "n", "t", "*", " ", ";">>,
    \* unit_statement : a ;
    <<"u", "n", "i", "t", "_", "s", "t", "a", "t", "e", "m", "e", "n", "t",
      " ", ":", " ", "a", " ", ";">>,
    \* sql_plus_command : a ;
    <<"s", "q", "l", "_", "p", "l", "u", "s", "_", "c", "o", "m", "m", "a", "n",
      "d", " ", ":", " ", "a", " ", ";">>,
    \* sql_plus_command_no_semicolon : a ;
    <<"s", "q", "l", "_", "p", "l", "u", "s", "_", "c", "o", "m", "m", "a", "n",
      "d", "_", "n", "o", "_", "s", "e", "m", "i", "c", "o", "l", "o", "n",
      " ", ":", " ", "a", " ", ";">>,
    \* dup : x x* y ;
    <<"d", "u", "p", " ", ":", " ", "x", " ", "x", "*", " ", "y", " ", ";">>,
    \* m : ##a b ;
    <<"m", " ", ":", " ", "#", "#", "a", " ", "b", " ", ";">>,
    \* all : s* p+ o? m ;
    <<"a", "l", "l", " ", ":", " ", "s", "*", " ", "p", "+", " ", "o", "?", " ",
      "m", " ", ";">> }

ComboLines == {
    \* foo : BAR baz qux? ;
    <<"f", "o", "o", " ", ":", " ", "B", "A", "R", " ", "b", "a", "z", " ",
      "q", "u", "x", "?", " ", ";">>,
    \* choice : a #alt_a | b #alt_b ;
    <<"c", "h", "o", "i", "c", "e", " ", ":", " ", "a", " ", "#", "a", "l", "t",
      "_", "a", " ", "|", " ", "b", " ", "#", "a", "l", "t", "_", "b", " ", ";">>,
    \* bad : a ) | b ;
    <<"b", "a", "d", " ", ":", " ", "a", " ", ")", " ", "|", " ", "b", " ", ";">>,
    \* sql_script : unit_statement* ;
    <<"s", "q", "l", "_", "s", "c", "r", "i", "p", "t", " ", ":", " ", "u", "n",
      "i", "t", "_", "s", "t", "a", "t", "e", "m", "e", "n", "t", "*", " ", ";">>,
    \* unit_statement : a ;
    <<"u", "n", "i", "t", "_", "s", "t", "a", "t", "e", "m", "e", "n", "t",
      " ", ":", " ", "a", " ", ";">> }

\* the lines, one production per line
RECURSIVE JoinLines(_)
JoinLines(ls) ==
    IF Len(ls) = 1 THEN ls[1]
    ELSE ls[1] \o <<"\n">> \o JoinLines(Tail(ls))

ComboGrammars ==
    {JoinLines(ls) : ls \in UNION {[1..n -> ComboLines] : n \in 2..MaxRules}}

Grammars == WideGrammars \cup ScenarioLines \cup ComboGrammars

\* what ctx.<name>() may return: null, or the child (the children, in
\* source order, for an accessor that returns a collection, which may be
\* empty)
ChildValues == {[present |-> FALSE, items |-> <<>>],
                [present |-> TRUE, items |-> <<>>],
                [present |-> TRUE, items |-> <<"c1", "c2">>]}

(***************************************************************************)
(* State                                                                   *)
(***************************************************************************)
VARIABLES
    content,       \* the grammar text parse() read
    pos,           \* where finditer looks for its next match
    rules,         \* GrammarParser.rules: rule name -> GrammarRule
    matches,       \* the matches finditer yielded, each with the rule_name,
                   \* the rule_body and the alt_parts of its loop pass
    pc,            \* where main is: parse, nodes, generate_class, done, crashed
    queue,         \* the sorted rule names node generation has not reached
    depth,         \* frames of _generate_class on the stack
    node_classes,  \* the class files written: rule name -> class
    node_skipped,  \* the rules whose class file existed
    builder,       \* SemanticTreeBuilder.java: status and visit methods
    visit,         \* the last call of a generated visit method
    error          \* the exception that ended main, "" when none

vars == <<content, pos, rules, matches, pc, queue, depth, node_classes,
          node_skipped, builder, visit, error>>

NoResult == [outcome |-> "none", class_name |-> <<>>, args |-> <<>>,
             exception |-> "", message |-> <<>>]

Init ==
    /\ content \in Grammars
    /\ pos = 1
    /\ rules = <<>>
    /\ matches = <<>>
    /\ pc = "parse"
    /\ queue = <<>>
    /\ depth = 0
    /\ node_classes = <<>>
    /\ node_skipped = {}
    /\ builder = [status |-> "NONE", methods |-> <<>>]
    /\ visit = [called |-> FALSE, rule_name |-> <<>>, ctx |-> <<>>,
                result |-> NoResult]
    /\ error = ""

(***************************************************************************)
(* Actions                                                                 *)
(***************************************************************************)
\* GrammarParser.parse: one pass of the loop over finditer's matches
ParseNext ==
    /\ pc = "parse"
    /\ LET m == NextRuleMatch(content, pos)
       IN /\ m.found
          /\ pos' = m.end
          /\ rules' = ParseStep(rules, m.name, m.body)
          /\ matches' = Append(matches,
                [rule_name |-> m.name, rule_body |-> m.body,
                 skipped |-> _should_skip_rule(m.name),
                 alt_parts |-> IF _should_skip_rule(m.name) THEN <<>>
                               ELSE _split_alternatives(m.body)])
    /\ UNCHANGED <<content, pc, queue, depth, node_classes, node_skipped,
                   builder, visit, error>>

\* GrammarParser.parse returns; main sorts the rules for node generation
ParseReturn ==
    /\ pc = "parse"
    /\ ~NextRuleMatch(content, pos).found
    /\ pc' = "nodes"
    /\ queue' = sorted(DOMAIN rules)
    /\ UNCHANGED <<content, pos, rules, matches, depth, node_classes,
                   node_skipped, builder, visit, error>>

\* SemanticNodeGenerator.generate for the next rule; exists is
\* output_path.exists()
GenerateNode ==
    /\ pc = "nodes"
    /\ queue # <<>>
    /\ \E exists \in BOOLEAN :
         LET rule_name == Head(queue)
             r == _generate_class(rules[rule_name])
         IN IF exists
            THEN /\ node_skipped' = node_skipped \cup {rule_name}
                 /\ queue' = Tail(queue)
                 /\ UNCHANGED <<pc, depth, node_classes, error>>
            ELSE IF r.result = "interface"
            THEN /\ pc' = "generate_class"
                 /\ depth' = 1
                 /\ UNCHANGED <<queue, node_classes, node_skipped, error>>
            ELSE IF r.result = "IndexError"
            THEN /\ pc' = "crashed"
                 /\ error' = "IndexError"
                 /\ UNCHANGED <<queue, depth, node_classes, node_skipped>>
            ELSE /\ node_classes' = (rule_name :> r.class) @@ node_classes
                 /\ queue' = Tail(queue)
                 /\ UNCHANGED <<pc, depth, node_skipped, error>>
    /\ UNCHANGED <<content, pos, rules, matches, builder, visit>>

\* _generate_class calls _generate_interface_with_implementations, which
\* calls _generate_class for the same rule: two more frames, or
\* RecursionError when the stack has no room for them
_generate_interface_with_implementations ==
    /\ pc = "generate_class"
    /\ LET r == _generate_class(rules[Head(queue)])
       IN IF r.result = "interface"
          THEN IF depth + 2 > MaxStack
               THEN /\ pc' = "crashed"
                    /\ error' = "RecursionError"
                    /\ UNCHANGED <<queue, depth, node_classes>>
               ELSE /\ depth' = depth + 2
                    /\ UNCHANGED <<pc, queue, node_classes, error>>
          ELSE /\ pc' = "nodes"
               /\ depth' = 0
               /\ node_classes' = (Head(queue) :> r.class) @@ node_classes
               /\ queue' = Tail(queue)
               /\ UNCHANGED error
    /\ UNCHANGED <<content, pos, rules, matches, node_skipped, builder, visit>>

\* TreeBuilderGenerator.generate, after the last rule's node class; exists
\* is output_path.exists()
GenerateBuilder ==
    /\ pc = "nodes"
    /\ queue = <<>>
    /\ \E exists \in BOOLEAN :
         builder' = IF exists THEN [status |-> "SKIP", methods |-> <<>>]
                    ELSE [status |-> "GENERATED",
                          methods |-> _generate_builder_class(rules)]
    /\ pc' = "done"
    /\ UNCHANGED <<content, pos, rules, matches, queue, depth, node_classes,
                   node_skipped, visit, error>>

\* the child accessors a visit method calls
Accessors(method) ==
    {method.body.steps[k].ctx_method : k \in 1..Len(method.body.steps)}

\* a generated visit method is called on a context
Visit ==
    /\ pc = "done"
    /\ builder.status = "GENERATED"
    /\ \E rule_name \in DOMAIN builder.methods :
         \E ctx \in [Accessors(builder.methods[rule_name]) -> ChildValues] :
            visit' = [called |-> TRUE, rule_name |-> rule_name, ctx |-> ctx,
                      result |-> RunVisit(builder.methods[rule_name], ctx)]
    /\ UNCHANGED <<content, pos, rules, matches, pc, queue, depth,
                   node_classes, node_skipped, builder, error>>

Next ==
    \/ ParseNext
    \/ ParseReturn
    \/ GenerateNode
    \/ _generate_interface_with_implementations
    \/ GenerateBuilder
    \/ Visit

Spec == Init /\ [][Next]_vars

(***************************************************************************)
(* Properties                                                              *)
(***************************************************************************)
Openers == {"(", "["}
Closers == {")", "]"}

\* nesting depth in front of s[i]: openers minus closers among s[1..i-1]
DepthBefore(s, i) ==
    Cardinality({j \in 1..(i - 1) : s[j] \in Openers})
    - Cardinality({j \in 1..(i - 1) : s[j] \in Closers})

Bars(s) == {i \in 1..Len(s) : s[i] = "|"}
TopBars(s) == {i \in Bars(s) : DepthBefore(s, i) = 0}
NestedBars(s) == {i \in Bars(s) : DepthBefore(s, i) # 0}

\* the passes of parse's loop that reached _parse_rule
Parsed == {k \in 1..Len(matches) : ~matches[k].skipped}

\* C1: _split_alternatives splits a rule body at a "|" only where the nesting
\* depth is zero: every "|" inside a (...) or [...] group stays inside its
\* alternative (the alternatives together keep exactly the nested bars, and
\* each bar an alternative keeps is at non-zero depth in it), and a body with
\* no "|" at depth zero is one alternative.
C1_SplitOnlyAtDepthZero ==
    \A k \in Parsed :
        LET body == matches[k].rule_body
            parts == matches[k].alt_parts
        IN /\ Cardinality(Bars(join(parts))) = Cardinality(NestedBars(body))
           /\ \A n \in 1..Len(parts) :
                \A i \in Bars(parts[n]) : DepthBefore(parts[n], i) # 0
           /\ TopBars(body) = {} => Len(parts) = 1

\* C1 witness: the body "a (x|y) b" was split, into one alternative
C1_Witness ==
    \E k \in Parsed :
        /\ matches[k].rule_body = <<"a", " ", "(", "x", "|", "y", ")", " ", "b">>
        /\ Len(matches[k].alt_parts) = 1

\* a rule of more than one alternative with at least one label
Polymorphic(rule) == has_multiple_alternatives(rule) /\ AnyLabel(rule)

\* main has ended, with or without an exception
Ended == pc \in {"done", "crashed"}

\* C2: when the run has ended, every rule with more than one alternative and
\* at least one label (whose class file did not exist) has one node class,
\* built from its first alternative only, and, once the builder is generated,
\* one visit method built from its first alternative only.
C2_PolymorphicProjectsFirstAlternative ==
    Ended =>
        \A r \in DOMAIN rules :
            (Polymorphic(rules[r]) /\ r \notin node_skipped) =>
                /\ r \in DOMAIN node_classes
                /\ node_classes[r].fields
                     = _generate_fields(rules[r].alternatives[1])
                /\ builder.status = "GENERATED" =>
                     builder.methods[r].body
                       = _generate_visit_body(rules[r], rules[r].alternatives[1])

\* C3: the run terminates with a result for every rule, labeled rules
\* included: the node projection of a rule never ends in RecursionError, and
\* when main has returned every rule has its node class (unless the file
\* existed) and, in a generated builder, its visit method.
C3_EveryProjectionReachesResult ==
    /\ error # "RecursionError"
    /\ pc = "done" =>
         \A r \in DOMAIN rules :
            /\ r \in node_skipped \/ r \in DOMAIN node_classes
            /\ builder.status = "GENERATED" => r \in DOMAIN builder.methods

\* field name of an element, and whether the claim's words make it a token
IsTokenName(name) == name[1] \in UpperChars

\* the elements of an alternative a field comes from: the rule references
\* that no earlier rule reference shares the normalized name with
FieldOrigins(elements) ==
    {k \in 1..Len(elements) :
        /\ ~IsTokenName(elements[k].name)
        /\ \A j \in 1..(k - 1) :
              ~IsTokenName(elements[j].name) =>
                  _to_camel_case(elements[j].name)
                    # _to_camel_case(elements[k].name)}

\* the alternative the projections of rule r read
Projected(r) == rules[r].alternatives[1].elements

Missing == <<" ", "m", "i", "s", "s", "i", "n", "g", " ">>

\* C4: a generated visit method called on a context that lacks the child of
\* a field from a ONE-cardinality rule reference throws: the exception's
\* message is "<rule> missing <element>" for the first such element, and no
\* node is returned.
C4_MissingRequiredChildThrows ==
    visit.called =>
        LET elements == Projected(visit.rule_name)
            absent == {k \in FieldOrigins(elements) :
                         /\ elements[k].cardinality = <<>>
                         /\ ~visit.ctx[elements[k].name].present}
        IN absent # {} =>
             /\ visit.result.outcome = "thrown"
             /\ visit.result.message
                  = visit.rule_name \o Missing \o elements[Min(absent)].name
             /\ visit.result.args = <<>>
             /\ visit.result.class_name = <<>>

\* C4 witness: visitFoo was called on a context without its baz child and
\* threw
C4_Witness ==
    /\ visit.called
    /\ visit.rule_name = <<"f", "o", "o">>
    /\ ~visit.ctx[<<"b", "a", "z">>].present
    /\ visit.result.outcome = "thrown"

\* the branch of a visit step the claim gives a cardinality
BranchOf(cardinality) ==
    IF cardinality \in {<<"*">>, <<"+">>} THEN "list"
    ELSE IF cardinality = <<"?">> THEN "optional"
    ELSE "required"

\* the first rule reference among elements[1..k] with the field name of
\* elements[k]
FirstOfName(elements, k) ==
    Min({j \in 1..k :
           /\ ~IsTokenName(elements[j].name)
           /\ _to_camel_case(elements[j].name) = _to_camel_case(elements[k].name)})

\* C5: in a generated node class every field name occurs once, and the field
\* has the type of the first rule reference of the projected alternative that
\* normalizes to that name: List<Class> when that element has * or +, Class
\* otherwise.  A generated visit method likewise has one step per field name,
\* reading the first element's child in the branch of its cardinality.
C5_OneFieldPerNameFromFirstElement ==
    /\ \A r \in DOMAIN node_classes :
          LET elements == Projected(r)
              fields == node_classes[r].fields
          IN \A k \in 1..Len(elements) :
                ~IsTokenName(elements[k].name) =>
                   LET first == elements[FirstOfName(elements, k)]
                       base == _rule_to_class_name(first.name)
                       named == {n \in 1..Len(fields) :
                                   fields[n].name = _to_camel_case(elements[k].name)}
                   IN /\ Cardinality(named) = 1
                      /\ \A n \in named :
                           fields[n].type =
                              IF first.cardinality \in {<<"*">>, <<"+">>}
                              THEN <<"L", "i", "s", "t", "<">> \o base \o <<">">>
                              ELSE base
    /\ \A r \in DOMAIN builder.methods :
          LET elements == Projected(r)
              steps == builder.methods[r].body.steps
          IN \A k \in 1..Len(elements) :
                ~IsTokenName(elements[k].name) =>
                   LET first == elements[FirstOfName(elements, k)]
                       named == {n \in 1..Len(steps) :
                                   steps[n].arg \in
                                     {_to_camel_case(elements[k].name),
                                      _to_camel_case(elements[k].name)
                                        \o <<"L", "i", "s", "t">>}}
                   IN \E n \in named :
                         /\ steps[n].ctx_method = first.name
                         /\ steps[n].branch = BranchOf(first.cardinality)
                         /\ \A m \in named :
                               steps[m].ctx_method = first.name => m = n

\* C5 witness: the class of "dup : x x* y ;" was generated, with the one
\* field x of type X
C5_Witness ==
    /\ <<"d", "u", "p">> \in DOMAIN node_classes
    /\ node_classes[<<"d", "u", "p">>].fields
         = <<[type |-> <<"X">>, name |-> <<"x">>],
             [type |-> <<"Y">>, name |-> <<"y">>]>>

ListRule == <<"l", "i", "s", "t", "_", "r", "u", "l", "e">>
ListOfItem == <<"L", "i", "s", "t", "<", "I", "t", "e", "m", ">">>

Item == <<"i", "t", "e", "m">>

\* the projected alternative of r is the one element item+
ItemPlus(r) ==
    /\ Len(Projected(r)) = 1
    /\ Projected(r)[1].name = Item
    /\ Projected(r)[1].cardinality = <<"+">>

\* C6 as stated: the class of a rule whose alternative is item+ ("list_rule :
\* item+ ;") has the single field items, of type List<Item>.
C6_FieldNamedItems ==
    \A r \in DOMAIN node_classes :
        ItemPlus(r) =>
            node_classes[r].fields
              = <<[type |-> ListOfItem, name |-> <<"i", "t", "e", "m", "s">>]>>

\* C6 amended: the class of a rule whose alternative is item+ ("list_rule :
\* item+ ;") has the single field item (the element's own name, not its
\* plural), of type List<Item>; and any + rule reference that is first of its
\* name gives one field, named by its camel-cased name, of type List<Class>.
C6_ListFieldKeepsElementName ==
    \A r \in DOMAIN node_classes :
        /\ ItemPlus(r) =>
             node_classes[r].fields = <<[type |-> ListOfItem, name |-> Item]>>
        /\ \A k \in FieldOrigins(Projected(r)) :
              Projected(r)[k].cardinality = <<"+">> =>
                 LET fields == node_classes[r].fields
                     named == {n \in 1..Len(fields) :
                                 fields[n].name = _to_camel_case(Projected(r)[k].name)}
                 IN /\ Cardinality(named) = 1
                    /\ \A n \in named :
                         fields[n].type
                           = <<"L", "i", "s", "t", "<">>
                             \o _rule_to_class_name(Projected(r)[k].name)
                             \o <<">">>

\* C6 witness: the class of "list_rule : item+ ;" was generated
C6_Witness ==
    /\ ListRule \in DOMAIN node_classes
    /\ ItemPlus(ListRule)
    /\ Len(node_classes[ListRule].fields) = 1

\* the indices of S in increasing order
RECURSIVE Ascending(_)
Ascending(S) == IF S = {} THEN <<>> ELSE <<Min(S)>> \o Ascending(S \ {Min(S)})

\* C7: the fields of a generated class, its constructor parameters and the
\* steps of a generated visit method are, in declaration order, the rule
\* references of the projected alternative that are first of their normalized
\* name; an element whose name starts with an uppercase letter gives none of
\* them.  "foo : BAR baz qux? ;" gives baz: Baz then qux: Qux.
C7_FieldsAreDistinctRuleReferences ==
    /\ \A r \in DOMAIN node_classes :
          LET elements == Projected(r)
              origins == Ascending(FieldOrigins(elements))
              names == [n \in 1..Len(origins) |->
                          _to_camel_case(elements[origins[n]].name)]
              class == node_classes[r]
          IN /\ [n \in 1..Len(class.fields) |-> class.fields[n].name] = names
             /\ [n \in 1..Len(class.constructor.params) |->
                   class.constructor.params[n].name] = names
             /\ r = <<"f", "o", "o">> =>
                  class.fields
                    = <<[type |-> <<"B", "a", "z">>, name |-> <<"b", "a", "z">>],
                        [type |-> <<"Q", "u", "x">>, name |-> <<"q", "u", "x">>]>>
    /\ \A r \in DOMAIN builder.methods :
          LET elements == Projected(r)
              origins == Ascending(FieldOrigins(elements))
              steps == builder.methods[r].body.steps
          IN [n \in 1..Len(steps) |-> steps[n].ctx_method]
               = [n \in 1..Len(origins) |-> elements[origins[n]].name]

\* C7 witness: the class and the visit method of "foo : BAR baz qux? ;" were
\* generated from the elements BAR, baz, qux?
C7_Witness ==
    /\ <<"f", "o", "o">> \in DOMAIN node_classes
    /\ <<"f", "o", "o">> \in DOMAIN builder.methods
    /\ Len(Projected(<<"f", "o", "o">>)) = 3
    /\ IsTokenName(Projected(<<"f", "o", "o">>)[1].name)

\* where a "#label" marker starts in t: a "#", white space, then [a-z_]
MarkerStarts(t) ==
    {i \in 1..Len(t) :
        /\ t[i] = "#"
        /\ \E j \in (i + 1)..Len(t) :
              /\ t[j] \in LowerIdStart
              /\ \A k \in (i + 1)..(j - 1) : t[k] \in SpaceChars}

\* the identifier of the marker at i: from its first character to the last
\* of the run of [a-z0-9_]
MarkerIdStart(t, i) == Min({j \in (i + 1)..Len(t) : t[j] \notin SpaceChars})
MarkerEnd(t, i) ==
    Min({e \in (MarkerIdStart(t, i) + 1)..(Len(t) + 1) :
            e = Len(t) + 1 \/ t[e] \notin LowerIdRest})

\* t without the characters of its markers
OutsideMarkers(t) ==
    LET keep == {p \in 1..Len(t) :
                   \A i \in MarkerStarts(t) : p < i \/ p >= MarkerEnd(t, i)}
        order == Ascending(keep)
    IN [n \in 1..Len(order) |-> t[order[n]]]

\* the alternative _parse_rule made of part n of match k has the label of
\* the first marker and the elements of the text outside the markers
LabelRecorded(k, n) ==
    LET part == matches[k].alt_parts[n]
        alt == rules[matches[k].rule_name].alternatives[n]
        first == Min(MarkerStarts(part))
    IN /\ alt.has_label
       /\ alt.label = Slice(part, MarkerIdStart(part, first), MarkerEnd(part, first))
       /\ alt.elements = _parse_alternative(OutsideMarkers(part))

\* label extraction applied to the stripped text finds no label and changes
\* nothing
ExtractionIdempotent(part) ==
    /\ ~LabelSearch(LabelSub(part)).found
    /\ LabelSub(LabelSub(part)) = LabelSub(part)

\* the matches whose rule is the one now in the model under its name
Current == {k \in Parsed :
              \A j \in Parsed : matches[j].rule_name = matches[k].rule_name => j <= k}

\* C8 as stated: for every alternative text with a "#label" marker the
\* label is recorded, no element comes from marker text, and extraction
\* applied again to the stripped text finds no label and changes nothing.
C8_LabelExtractionIdempotent ==
    \A k \in Current :
        \A n \in 1..Len(matches[k].alt_parts) :
            MarkerStarts(matches[k].alt_parts[n]) # {} =>
                /\ LabelRecorded(k, n)
                /\ ExtractionIdempotent(matches[k].alt_parts[n])

\* C8 amended: for every alternative text with a "#label" marker the label
\* of the first marker is recorded and no element comes from marker text;
\* extraction applied again to the stripped text finds no label and changes
\* nothing when every "#" of the text starts a marker.
C8_LabelStrippedBeforeTokenizing ==
    \A k \in Current :
        \A n \in 1..Len(matches[k].alt_parts) :
            LET part == matches[k].alt_parts[n]
            IN MarkerStarts(part) # {} =>
                 /\ LabelRecorded(k, n)
                 /\ (\A i \in 1..Len(part) : part[i] = "#" => i \in MarkerStarts(part))
                      => ExtractionIdempotent(part)

\* C8 witness: the alternative "a #alt_a" was parsed, to the label alt_a and
\* the one element a
C8_Witness ==
    \E k \in Current :
        /\ matches[k].alt_parts[1]
             = <<"a", " ", "#", "a", "l", "t", "_", "a">>
        /\ rules[matches[k].rule_name].alternatives[1].label
             = <<"a", "l", "t", "_", "a">>
        /\ Len(rules[matches[k].rule_name].alternatives[1].elements) = 1

\* the running depth of _split_alternatives goes negative in the body
DepthGoesNegative(body) ==
    \E i \in 1..Len(body) : DepthBefore(body, i + 1) < 0

\* C9 as stated: a rule whose body drives the depth negative is not inserted
\* into the model, and every other rule is.
C9_UnbalancedRuleRejected ==
    \A k \in Parsed :
        IF DepthGoesNegative(matches[k].rule_body)
        THEN matches[k].rule_name \notin DOMAIN rules
        ELSE matches[k].rule_name \in DOMAIN rules

\* C9 amended: a rule whose body drives the depth negative is inserted into
\* the model like any other, with one alternative per part of the split, no
\* error is reported for it, and every other rule is inserted too.
C9_UnbalancedRuleInserted ==
    /\ \A k \in Parsed : matches[k].rule_name \in DOMAIN rules
    /\ \A k \in Current :
          DepthGoesNegative(matches[k].rule_body) =>
             /\ rules[matches[k].rule_name].name = matches[k].rule_name
             /\ Len(rules[matches[k].rule_name].alternatives)
                  = Len(matches[k].alt_parts)
    /\ pc = "parse" => error = ""

\* C9 witness: extraction has returned with the rule "bad : a ) | b ;" and
\* another rule in the model
C9_Witness ==
    /\ pc = "nodes"
    /\ <<"b", "a", "d">> \in DOMAIN rules
    /\ <<"f", "o", "o">> \in DOMAIN rules
    /\ \E k \in Parsed : DepthGoesNegative(matches[k].rule_body)

\* C10: the model never holds a rule named sql_script, unit_statement,
\* sql_plus_command or sql_plus_command_no_semicolon, and holds, under its
\* own name, the rule of every match with another name (and nothing else).
C10_ExcludedRulesNeverInserted ==
    /\ DOMAIN rules \cap skip_rules = {}
    /\ \A k \in 1..Len(matches) :
          matches[k].rule_name \notin skip_rules =>
             /\ matches[k].rule_name \in DOMAIN rules
             /\ rules[matches[k].rule_name].name = matches[k].rule_name
    /\ \A r \in DOMAIN rules : \E k \in 1..Len(matches) : matches[k].rule_name = r

\* C10 witness: extraction has returned after a match named sql_script and a
\* match named foo
C10_Witness ==
    /\ pc = "nodes"
    /\ \E k \in 1..Len(matches) :
          matches[k].rule_name = <<"s", "q", "l", "_", "s", "c", "r", "i", "p", "t">>
    /\ <<"f", "o", "o">> \in DOMAIN rules

\* the rule references the fields of rule r come from, in source order
Origins(r) ==
    LET elements == Projected(r)
        at == Ascending(FieldOrigins(elements))
    IN [n \in 1..Len(at) |-> elements[at[n]]]

\* the value the claim gives the field of element e on the context ctx
BranchValue(e, ctx) ==
    LET child == ctx[e.name]
        class_name == _rule_to_class_name(e.name)
        node(c) == [tag |-> "node", class_name |-> class_name, items |-> c]
    IN IF e.cardinality \in {<<"*">>, <<"+">>}
       THEN [tag |-> "list", class_name |-> class_name,
             items |-> IF child.present
                       THEN [k \in 1..Len(child.items) |-> node(<<child.items[k]>>)]
                       ELSE <<>>]
       ELSE IF e.cardinality = <<"?">> /\ ~child.present
       THEN [tag |-> "null", class_name |-> <<>>, items |-> <<>>]
       ELSE node(child.items)

\* C11: every field of a generated visit method has one step, whose branch
\* its element's cardinality alone selects: list for * and +, optional for ?,
\* required for none (so a * element is on the list branch).  A call throws
\* only for a required field whose child is absent, never for a list or an
\* optional field; a call that returns has built, per field, the list of the
\* nodes of the child's items in source order (empty if the child is absent),
\* null or the node for an optional field, the node for a required field.
C11_BranchSelectedByCardinality ==
    /\ \A r \in DOMAIN builder.methods :
          LET steps == builder.methods[r].body.steps
          IN /\ Len(steps) = Len(Origins(r))
             /\ \A n \in 1..Len(steps) :
                   /\ steps[n].branch \in {"list", "optional", "required"}
                   /\ steps[n].branch = BranchOf(Origins(r)[n].cardinality)
    /\ visit.called =>
          LET origins == Origins(visit.rule_name)
              absent == {n \in 1..Len(origins) :
                           /\ origins[n].cardinality = <<>>
                           /\ ~visit.ctx[origins[n].name].present}
          IN /\ visit.result.outcome = "thrown" <=> absent # {}
             /\ visit.result.outcome = "returned" =>
                   /\ Len(visit.result.args) = Len(origins)
                   /\ \A n \in 1..Len(origins) :
                         visit.result.args[n] = BranchValue(origins[n], visit.ctx)

\* C11 witness: the visit method of "all : s* p+ o? m ;" returned on a
\* context without the s and o children and with two p children
C11_Witness ==
    /\ visit.called
    /\ visit.rule_name = <<"a", "l", "l">>
    /\ ~visit.ctx[<<"s">>].present
    /\ Len(visit.ctx[<<"p">>].items) = 2
    /\ ~visit.ctx[<<"o">>].present
    /\ visit.result.outcome = "returned"
    /\ Len(visit.result.args) = 4
    /\ visit.result.args[1].tag = "list"

\* the Java type the claim gives the field of element e
TypeOf(e) ==
    IF e.cardinality \in {<<"*">>, <<"+">>}
    THEN <<"L", "i", "s", "t", "<">> \o _rule_to_class_name(e.name) \o <<">">>
    ELSE _rule_to_class_name(e.name)

\* a Java type List<...>
IsListType(type) ==
    Len(type) >= 5 /\ SubSeq(type, 1, 5) = <<"L", "i", "s", "t", "<">>

\* the rules with both a generated class and a generated visit method
Both == DOMAIN node_classes \cap DOMAIN builder.methods

\* C12: for a rule with a generated class and a generated visit method, the
\* visit method constructs the rule's class with as many arguments as the
\* constructor has parameters; the parameters are the fields and the getters,
\* in order; and the n-th argument is the local variable of the step that
\* reads the child of the element the n-th parameter comes from, declared
\* with the parameter's type (List<Class> on both sides or Class on both).
\* A call that returns passes a list exactly where the parameter is a list.
C12_ConstructorArgumentsMatchParameters ==
    /\ \A r \in Both :
          LET class == node_classes[r]
              params == class.constructor.params
              body == builder.methods[r].body
              args == body.constructor_args
          IN /\ body.returns = class.constructor.name
             /\ Len(args) = Len(params)
             /\ Len(params) = Len(Origins(r))
             /\ params = class.fields
             /\ Len(class.getters) = Len(params)
             /\ \A n \in 1..Len(params) :
                   LET e == Origins(r)[n]
                   IN /\ params[n].name = _to_camel_case(e.name)
                      /\ params[n].type = TypeOf(e)
                      /\ class.getters[n].type = params[n].type
                      /\ class.getters[n].returns = params[n].name
                      /\ body.steps[n].ctx_method = e.name
                      /\ body.steps[n].declared = params[n].type
                      /\ args[n] = body.steps[n].arg
                      /\ args[n] = IF body.steps[n].branch = "list"
                                   THEN params[n].name \o <<"L", "i", "s", "t">>
                                   ELSE params[n].name
    /\ (visit.called /\ visit.rule_name \in Both
          /\ visit.result.outcome = "returned") =>
          LET params == node_classes[visit.rule_name].constructor.params
          IN /\ visit.result.class_name
                  = node_classes[visit.rule_name].constructor.name
             /\ Len(visit.result.args) = Len(params)
             /\ \A n \in 1..Len(params) :
                   visit.result.args[n].tag = "list" <=> IsListType(params[n].type)

\* C12 witness: the class and the visit method of "dup : x x* y ;" were both
\* generated, the constructor with the parameters x and y and the visit
\* method passing x and y, and the visit method was called and returned
C12_Witness ==
    /\ <<"d", "u", "p">> \in Both
    /\ Len(node_classes[<<"d", "u", "p">>].constructor.params) = 2
    /\ builder.methods[<<"d", "u", "p">>].body.constructor_args
         = <<<<"x">>, <<"y">>>>
    /\ visit.called
    /\ visit.rule_name = <<"d", "u", "p">>
    /\ visit.result.outcome = "returned"

====
